---- MODULE Spec2Model ----
(***************************************************************************)
(* Model of the Sol-TxBuilder-MCP tool handlers (src/index.ts): the        *)
(* buildTransaction and signAndSendTransaction pipelines and the four      *)
(* query tools, each with its try/catch boundary and its network awaits.   *)
(* The operations of @solana/web3.js the handlers call (PublicKey,         *)
(* Keypair.fromSecretKey, Transaction.add/sign/serialize/from) are         *)
(* operators that compute what those calls compute.                        *)
(***************************************************************************)
EXTENDS Integers, Sequences, FiniteSets, TLC

\* ---------------------------------------------------------------- bounds
MaxInstructions == 3

\* ------------------------------------------------------------- constants
LAMPORTS_PER_SOL == 1000000000

SystemProgramId == "11111111111111111111111111111111"

\* error messages, one per failure kind
InvalidCluster == "Invalid cluster"
InvalidAddress == "Invalid public key input"
InvalidKeyMaterial == "bad secret key size"
SignerMismatch == "unknown signer"
SignatureVerificationFailed == "Signature verification failed"
MalformedTransaction == "malformed transaction bytes"
NetworkUnavailable == "fetch failed"
NoError == ""

\* ------------------------------------------------------------ input sets
ValidAddresses == {"A", "B"}
AddressStrings == ValidAddresses \cup {"bad"}
ClusterStrings == {"mainnet-beta", "testnet", "devnet", "localnet"}
SecretKeyStrings == {"KA", "KB", "badkey"}
Blockhashes == {"h1"}
Amounts == {1}
\* base58 order of the account addresses (account-key tie-break)
AddressOrder == <<SystemProgramId, "A", "B">>

Descriptors ==
    [type : {"transfer"}, params : [from : AddressStrings, to : AddressStrings, amount : Amounts]]
    \cup [type : {"memo"}, params : [from : {"A", "bad"}, to : {"A"}, amount : Amounts]]

RECURSIVE SeqsUpTo(_, _)
SeqsUpTo(S, n) ==
    IF n = 0 THEN {<<>>}
    ELSE LET shorter == SeqsUpTo(S, n - 1)
         IN  shorter \cup {Append(s, e) : s \in {t \in shorter : Len(t) = n - 1}, e \in S}

InstructionLists == SeqsUpTo(Descriptors, MaxInstructions)

\* ---------------------------------------------------- ClusterResolver
GetClusterUrlAcceptAll(cluster) ==
    [error |-> NoError, url |-> "https://api." \o cluster \o ".solana.com"]

\* getClusterUrl: the endpoint of a known cluster name, a throw otherwise
GetClusterUrl(cluster) ==
    IF cluster \in {"mainnet-beta", "testnet", "devnet"}
    THEN [error |-> NoError, url |-> "https://api." \o cluster \o ".solana.com"]
    ELSE [error |-> InvalidCluster, url |-> ""]

\* ---------------------------------------------- address and key codecs
\* new PublicKey(s): throws unless s decodes to an address
PublicKeyOk(s) == s \in ValidAddresses \cup {SystemProgramId}

\* Keypair.fromSecretKey(Buffer.from(s, 'base64')): throws on a malformed blob
KeypairOk(s) == s \in {"KA", "KB"}

\* the public key a keypair carries
PublicKeyOf(s) == IF s = "KA" THEN "A" ELSE IF s = "KB" THEN "B" ELSE ""

\* ------------------------------------------------------- Transaction
NullSignature == <<>>

EmptyMessage ==
    [header |-> [numRequiredSignatures |-> 0,
                 numReadonlySignedAccounts |-> 0,
                 numReadonlyUnsignedAccounts |-> 0],
     accountKeys |-> <<>>,
     recentBlockhash |-> "",
     instructions |-> <<>>]

\* new Transaction()
NewTransaction ==
    [instructions |-> <<>>, recentBlockhash |-> "", feePayer |-> "", signatures |-> <<>>]

\* SystemProgram.transfer({fromPubkey, toPubkey, lamports})
SystemProgramTransfer(from, to, lamports) ==
    [programId |-> SystemProgramId,
     keys |-> <<[pubkey |-> from, isSigner |-> TRUE, isWritable |-> TRUE],
                [pubkey |-> to, isSigner |-> FALSE, isWritable |-> TRUE]>>,
     data |-> lamports]

TransactionAddFront(tx, instruction) ==
    [tx EXCEPT !.instructions = <<instruction>> \o @]

\* transaction.add(instruction)
TransactionAdd(tx, instruction) ==
    [tx EXCEPT !.instructions = Append(@, instruction)]

\* nacl sign.detached(message, secretKey): deterministic in (message, key)
Ed25519Sign(message, secretKey) == <<PublicKeyOf(secretKey), message>>

\* nacl sign.detached.verify(message, signature, publicKey)
Ed25519Verify(message, signature, publicKey) == signature = <<publicKey, message>>

IndexOf(s, e) == CHOOSE i \in 1..Len(s) : s[i] = e

\* the key metas of all instructions, in order
RECURSIVE AccountMetas(_)
AccountMetas(instructions) ==
    IF instructions = <<>> THEN <<>>
    ELSE Head(instructions).keys \o AccountMetas(Tail(instructions))

\* the fee payer compileMessage uses: the one set, else the first signer
FeePayerOf(tx) ==
    IF tx.feePayer # "" THEN tx.feePayer
    ELSE IF Len(tx.signatures) > 0 THEN tx.signatures[1].publicKey
    ELSE ""

\* the public keys of a signature list
SignatureKeys(signatures) == {signatures[i].publicKey : i \in 1..Len(signatures)}

\* compileMessage: the accounts of the transaction: fee payer, instruction
\* keys and program ids
AccountsOf(tx, feePayer, metas) ==
    {feePayer} \cup {metas[i].pubkey : i \in 1..Len(metas)}
               \cup {tx.instructions[i].programId : i \in 1..Len(tx.instructions)}

\* compileMessage: the account keys after the fee payer, in message order:
\* writable signers, readonly signers, writable non-signers, readonly
\* non-signers; an account is a signer when an instruction marks it one or
\* when the signature list names it
KeyGroups(accounts, feePayer, metas, sigKeys) ==
    LET isSigner(a) == \/ \E i \in 1..Len(metas) : metas[i].pubkey = a /\ metas[i].isSigner
                       \/ a \in sigKeys
        isWritable(a) == \E i \in 1..Len(metas) : metas[i].pubkey = a /\ metas[i].isWritable
        member(a) == a \in accounts /\ a # feePayer
    IN  [signedW |-> SelectSeq(AddressOrder, LAMBDA a : member(a) /\ isSigner(a) /\ isWritable(a)),
         signedR |-> SelectSeq(AddressOrder, LAMBDA a : member(a) /\ isSigner(a) /\ ~isWritable(a)),
         unsignedW |-> SelectSeq(AddressOrder, LAMBDA a : member(a) /\ ~isSigner(a) /\ isWritable(a)),
         unsignedR |-> SelectSeq(AddressOrder, LAMBDA a : member(a) /\ ~isSigner(a) /\ ~isWritable(a))]

\* compileMessage: an instruction with its accounts as indices into the keys
CompileInstruction(inst, accountKeys) ==
    [programIdIndex |-> IndexOf(accountKeys, inst.programId),
     accounts |-> [k \in 1..Len(inst.keys) |-> IndexOf(accountKeys, inst.keys[k].pubkey)],
     data |-> inst.data]

\* compileMessage: header, account keys, blockhash, compiled instructions
MessageOf(tx, feePayer, groups, accountKeys) ==
    [header |-> [numRequiredSignatures |-> 1 + Len(groups.signedW) + Len(groups.signedR),
                 numReadonlySignedAccounts |-> Len(groups.signedR),
                 numReadonlyUnsignedAccounts |-> Len(groups.unsignedR)],
     accountKeys |-> accountKeys,
     recentBlockhash |-> tx.recentBlockhash,
     instructions |-> [i \in 1..Len(tx.instructions) |->
                         CompileInstruction(tx.instructions[i], accountKeys)]]

\* compileMessage: its checks, in order
CompileChecked(tx, feePayer, accounts, groups) ==
    IF tx.recentBlockhash = "" THEN
        [error |-> "Transaction recentBlockhash required", message |-> EmptyMessage]
    ELSE IF feePayer = "" THEN
        [error |-> "Transaction fee payer required", message |-> EmptyMessage]
    ELSE IF ~(SignatureKeys(tx.signatures) \subseteq accounts) THEN
        [error |-> SignerMismatch, message |-> EmptyMessage]
    ELSE
        [error |-> NoError,
         message |-> MessageOf(tx, feePayer, groups,
                        <<feePayer>> \o groups.signedW \o groups.signedR
                                     \o groups.unsignedW \o groups.unsignedR)]

CompileAccounts(tx, feePayer, metas, accounts) ==
    CompileChecked(tx, feePayer, accounts,
                   KeyGroups(accounts, feePayer, metas, SignatureKeys(tx.signatures)))

\* Transaction.compileMessage
CompileMessage(tx) ==
    CompileAccounts(tx, FeePayerOf(tx), AccountMetas(tx.instructions),
                    AccountsOf(tx, FeePayerOf(tx), AccountMetas(tx.instructions)))

\* the first numRequiredSignatures account keys of a message
SignedKeys(message) == SubSeq(message.accountKeys, 1, message.header.numRequiredSignatures)

\* _compile: the signature list is kept when it lists exactly the required
\* signers, in order, and is reset to them, unsigned, otherwise
NormalizeSignatures(tx, signedKeys) ==
    IF /\ Len(tx.signatures) = Len(signedKeys)
       /\ \A i \in 1..Len(signedKeys) : tx.signatures[i].publicKey = signedKeys[i]
    THEN tx
    ELSE [tx EXCEPT !.signatures =
            [i \in 1..Len(signedKeys) |->
                [publicKey |-> signedKeys[i], signature |-> NullSignature]]]

CompileResult(tx, c) ==
    IF c.error # NoError THEN [error |-> c.error, message |-> EmptyMessage, tx |-> tx]
    ELSE [error |-> NoError, message |-> c.message,
          tx |-> NormalizeSignatures(tx, SignedKeys(c.message))]

\* Transaction._compile
Compile(tx) == CompileResult(tx, CompileMessage(tx))

\* the signature list with the entry of publicKey set to signature
SetSignature(signatures, publicKey, signature) ==
    [i \in 1..Len(signatures) |->
        IF signatures[i].publicKey = publicKey
        THEN [publicKey |-> publicKey, signature |-> signature]
        ELSE signatures[i]]

SignCompiledDuplicating(tx, c, secretKey) ==
    IF c.error # NoError THEN [error |-> c.error, tx |-> tx]
    ELSE [error |-> NoError,
          tx |-> [tx EXCEPT !.signatures =
                    Append(@, [publicKey |-> PublicKeyOf(secretKey),
                               signature |-> Ed25519Sign(c.message, secretKey)])]]

TransactionSignDuplicating(tx, secretKey) ==
    SignCompiledDuplicating(tx,
        Compile([tx EXCEPT !.signatures =
                    Append(@, [publicKey |-> PublicKeyOf(secretKey),
                               signature |-> NullSignature])]),
        secretKey)

\* sign, once the message is compiled: _partialSign fills the signer's entry
SignCompiled(reset, c, secretKey) ==
    IF c.error # NoError THEN [error |-> c.error, tx |-> reset]
    ELSE [error |-> NoError,
          tx |-> [c.tx EXCEPT !.signatures =
                    SetSignature(@, PublicKeyOf(secretKey),
                                 Ed25519Sign(c.message, secretKey))]]

SignReset(reset, secretKey) == SignCompiled(reset, Compile(reset), secretKey)

\* transaction.sign(signer): the signature list is replaced by the signer
\* alone, the message compiled (which rejects a signer that is no account of
\* the transaction and resets the list to the required signers), and the
\* signer's entry filled in
TransactionSign(tx, secretKey) ==
    SignReset([tx EXCEPT !.signatures =
                 <<[publicKey |-> PublicKeyOf(secretKey), signature |-> NullSignature]>>],
              secretKey)

\* ---------------------------------------------------- TransactionCodec
EmptyWire == [wellFormed |-> FALSE, signatures |-> <<>>, message |-> EmptyMessage]

SerializeWireReversed(signatures, message) ==
    [wellFormed |-> TRUE,
     signatures |-> [i \in 1..Len(signatures) |-> signatures[i].signature],
     message |-> [message EXCEPT !.instructions =
                    [i \in 1..Len(@) |-> @[Len(@) + 1 - i]]]]

\* Transaction._serialize: the signature array, then the message
SerializeWire(signatures, message) ==
    [wellFormed |-> TRUE,
     signatures |-> [i \in 1..Len(signatures) |-> signatures[i].signature],
     message |-> message]

SerializeCompiledUnverified(tx, c) ==
    IF c.error # NoError THEN [error |-> c.error, wire |-> EmptyWire, tx |-> tx]
    ELSE [error |-> NoError, wire |-> SerializeWire(c.tx.signatures, c.message), tx |-> c.tx]

TransactionSerializeUnverified(tx) == SerializeCompiledUnverified(tx, Compile(tx))

\* every required signer carries a signature that verifies over the message
SignaturesVerify(signatures, message) ==
    \A i \in 1..Len(signatures) :
        /\ signatures[i].signature # NullSignature
        /\ Ed25519Verify(message, signatures[i].signature, signatures[i].publicKey)

\* serialize, once the message is compiled
SerializeCompiled(tx, c) ==
    IF c.error # NoError THEN [error |-> c.error, wire |-> EmptyWire, tx |-> tx]
    ELSE IF ~SignaturesVerify(c.tx.signatures, c.message) THEN
        [error |-> SignatureVerificationFailed, wire |-> EmptyWire, tx |-> c.tx]
    ELSE [error |-> NoError, wire |-> SerializeWire(c.tx.signatures, c.message), tx |-> c.tx]

\* transaction.serialize() with its defaults: every required signer must
\* carry a signature that verifies over the message
TransactionSerialize(tx) == SerializeCompiled(tx, Compile(tx))

\* Message.isAccountWritable (indices from 1)
IsAccountWritable(message, i) ==
    LET h == message.header
    IN  \/ i <= h.numRequiredSignatures - h.numReadonlySignedAccounts
        \/ /\ i > h.numRequiredSignatures
           /\ i <= Len(message.accountKeys) - h.numReadonlyUnsignedAccounts

\* populate: the key meta of account i of the message
MetaOf(m, i) ==
    [pubkey |-> m.accountKeys[i],
     isSigner |-> i <= m.header.numRequiredSignatures,
     isWritable |-> IsAccountWritable(m, i)]

\* populate: the instruction of a compiled instruction
InstructionOf(m, ci) ==
    [programId |-> m.accountKeys[ci.programIdIndex],
     keys |-> [k \in 1..Len(ci.accounts) |-> MetaOf(m, ci.accounts[k])],
     data |-> ci.data]

\* Transaction.populate(message, signatures)
Populate(m, signatures) ==
    [instructions |-> [i \in 1..Len(m.instructions) |-> InstructionOf(m, m.instructions[i])],
     recentBlockhash |-> m.recentBlockhash,
     feePayer |-> IF m.header.numRequiredSignatures > 0 THEN m.accountKeys[1] ELSE "",
     signatures |-> [i \in 1..Len(signatures) |->
                       [publicKey |-> m.accountKeys[i], signature |-> signatures[i]]]]

\* Transaction.from(Buffer.from(s, 'base64'))
TransactionFrom(wire) ==
    IF ~wire.wellFormed THEN [error |-> MalformedTransaction, tx |-> NewTransaction]
    ELSE [error |-> NoError, tx |-> Populate(wire.message, wire.signatures)]

\* the envelope of a transaction: ordered operations, freshness token, fee
\* payer, (signer, signature) entries
EnvelopeOf(tx) ==
    [instructions |-> [i \in 1..Len(tx.instructions) |->
                         [programId |-> tx.instructions[i].programId,
                          accounts |-> [k \in 1..Len(tx.instructions[i].keys) |->
                                          tx.instructions[i].keys[k].pubkey],
                          data |-> tx.instructions[i].data]],
     recentBlockhash |-> tx.recentBlockhash,
     feePayer |-> tx.feePayer,
     signatures |-> tx.signatures]

\* ---------------------------------------------- transactions of other clients
\* the transfers a one-instruction transaction of another client may carry
WireInstructionLists ==
    {<<>>} \cup {<<SystemProgramTransfer(f, t, LAMPORTS_PER_SOL)>> :
                   f \in ValidAddresses, t \in ValidAddresses}

WireMessages ==
    {CompileMessage([instructions |-> il, recentBlockhash |-> "h0",
                     feePayer |-> fp, signatures |-> <<>>]).message :
        il \in WireInstructionLists, fp \in ValidAddresses}

\* wire transactions a caller may hand to signAndSendTransaction: every
\* required signer has signed or not, and one string that is no transaction
ExternalWires ==
    {EmptyWire} \cup
    UNION {{[wellFormed |-> TRUE, signatures |-> s, message |-> m] :
              s \in {t \in [1..m.header.numRequiredSignatures ->
                              {NullSignature} \cup {<<a, m>> : a \in ValidAddresses}] :
                       \A i \in DOMAIN t : t[i] = NullSignature \/ t[i][1] = m.accountKeys[i]}} :
           m \in WireMessages}

\* ------------------------------------------------------------- state
VARIABLES
    pc,          \* "idle", "awaitBlockhash", "awaitSend", "awaitQuery", "done"
    tool,        \* the tool of the current invocation
    args,        \* its arguments
    tx,          \* the handler's Transaction object
    netLog,      \* the network requests the invocation has made, in order
    responses,   \* the responses the invocation has produced
    failure,     \* the message of the error thrown in the invocation, if any
    steps,       \* the handler steps that have completed, in order
    terminated,  \* an error left the handler
    relayed      \* transactionBase64 is the payload of the preceding build

vars == <<pc, tool, args, tx, netLog, responses, failure, steps, terminated, relayed>>

NoArgs ==
    [instructions |-> <<>>, cluster |-> "", feePayer |-> "", signerSecretKey |-> "",
     transactionBase64 |-> EmptyWire, secretKey |-> "", publicKey |-> "",
     dataSize |-> 0, signature |-> ""]

NetworkFailures == {NetworkUnavailable, "RpcError"}

Request(op, payload) == [op |-> op, payload |-> payload]

TextResponse(text, wire) == [type |-> "text", text |-> text, transactionBase64 |-> wire]

CatchBlockRethrow(error) == [responses |-> <<>>, terminated |-> TRUE]

\* catch (error) { return { content: [{ type: "text", text: `Error: ${message}` }] } }
CatchBlock(error) ==
    [responses |-> <<TextResponse("Error: " \o error, EmptyWire)>>, terminated |-> FALSE]

\* the handler returns: its result, or what the catch block makes of the error
Return(error, result) ==
    LET out == IF error # NoError THEN CatchBlock(error)
               ELSE [responses |-> <<result>>, terminated |-> FALSE]
    IN  /\ pc' = "done"
        /\ failure' = error
        /\ responses' = out.responses
        /\ terminated' = out.terminated

Init ==
    /\ pc = "idle"
    /\ tool = ""
    /\ args = NoArgs
    /\ tx = NewTransaction
    /\ netLog = <<>>
    /\ responses = <<>>
    /\ failure = NoError
    /\ steps = <<>>
    /\ terminated = FALSE
    /\ relayed = FALSE

\* ----------------------------------------------------- buildTransaction
RECURSIVE AddInstructionsSkippingMalformed(_, _)
AddInstructionsSkippingMalformed(transaction, instructions) ==
    IF instructions = <<>> THEN [error |-> NoError, tx |-> transaction]
    ELSE LET inst == Head(instructions)
         IN  IF /\ inst.type = "transfer"
                /\ PublicKeyOk(inst.params.from)
                /\ PublicKeyOk(inst.params.to)
             THEN AddInstructionsSkippingMalformed(
                        TransactionAdd(transaction,
                            SystemProgramTransfer(inst.params.from, inst.params.to,
                                                  LAMPORTS_PER_SOL * inst.params.amount)),
                        Tail(instructions))
             ELSE AddInstructionsSkippingMalformed(transaction, Tail(instructions))

\* the loop over the instruction descriptors: a transfer is
\* converted and added, any other type is passed over
RECURSIVE AddInstructions(_, _)
AddInstructions(transaction, instructions) ==
    IF instructions = <<>> THEN [error |-> NoError, tx |-> transaction]
    ELSE LET inst == Head(instructions)
         IN  IF inst.type = "transfer" THEN
                 IF ~PublicKeyOk(inst.params.from) \/ ~PublicKeyOk(inst.params.to)
                 THEN [error |-> InvalidAddress, tx |-> transaction]
                 ELSE AddInstructions(
                        TransactionAdd(transaction,
                            SystemProgramTransfer(inst.params.from, inst.params.to,
                                                  LAMPORTS_PER_SOL * inst.params.amount)),
                        Tail(instructions))
             ELSE AddInstructions(transaction, Tail(instructions))

\* lines 51-67, once the cluster is resolved and the instructions are added
BuildRequestBlockhash(url, added) ==
    IF url.error # NoError THEN
        /\ Return(url.error, TextResponse("", EmptyWire))
        /\ UNCHANGED <<tx, netLog, steps>>
    ELSE IF added.error # NoError THEN
        /\ Return(added.error, TextResponse("", EmptyWire))
        /\ tx' = added.tx
        /\ steps' = <<"cluster">>
        /\ UNCHANGED netLog
    ELSE
        /\ pc' = "awaitBlockhash"
        /\ tx' = added.tx
        /\ steps' = <<"cluster", "instructions">>
        /\ netLog' = Append(netLog, Request("getLatestBlockhash", EmptyWire))
        /\ UNCHANGED <<responses, failure, terminated>>

\* the handler up to its await of connection.getLatestBlockhash()
BuildTransaction(instructions, cluster, feePayer, signerSecretKey) ==
    /\ pc = "idle"
    /\ tool' = "buildTransaction"
    /\ args' = [NoArgs EXCEPT !.instructions = instructions, !.cluster = cluster,
                              !.feePayer = feePayer, !.signerSecretKey = signerSecretKey]
    /\ relayed' = FALSE
    /\ \E added \in {AddInstructions(NewTransaction, instructions)} :
          BuildRequestBlockhash(GetClusterUrl(cluster), added)

\* lines 81-84: the signed transaction is serialized and returned
BuildSerialize(signed, serialized) ==
    IF serialized.error # NoError THEN
        /\ Return(serialized.error, TextResponse("", EmptyWire))
        /\ tx' = serialized.tx
        /\ steps' = steps \o <<"blockhash", "feePayer", "key", "sign">>
    ELSE
        /\ Return(NoError, TextResponse("{transactionBase64}", serialized.wire))
        /\ tx' = serialized.tx
        /\ steps' = steps \o <<"blockhash", "feePayer", "key", "sign", "serialize">>

\* line 75: the transaction is signed
BuildSign(signed) ==
    IF signed.error # NoError THEN
        /\ Return(signed.error, TextResponse("", EmptyWire))
        /\ tx' = signed.tx
        /\ steps' = steps \o <<"blockhash", "feePayer", "key">>
    ELSE \E serialized \in {TransactionSerialize(signed.tx)} :
            BuildSerialize(signed, serialized)

\* lines 68-75: blockhash and fee payer are set, the key is parsed
BuildSetFeePayer(withHash, withPayer) ==
    IF ~PublicKeyOk(args.feePayer) THEN
        /\ Return(InvalidAddress, TextResponse("", EmptyWire))
        /\ tx' = withHash
        /\ steps' = Append(steps, "blockhash")
    ELSE IF ~KeypairOk(args.signerSecretKey) THEN
        /\ Return(InvalidKeyMaterial, TextResponse("", EmptyWire))
        /\ tx' = withPayer
        /\ steps' = steps \o <<"blockhash", "feePayer">>
    ELSE \E signed \in {TransactionSign(withPayer, args.signerSecretKey)} :
            BuildSign(signed)

\* the handler from the reply to getLatestBlockhash to its return
BlockhashReply ==
    /\ pc = "awaitBlockhash"
    /\ \/ /\ \E e \in NetworkFailures : Return(e, TextResponse("", EmptyWire))
          /\ UNCHANGED <<tx, steps>>
       \/ \E blockhash \in Blockhashes :
            BuildSetFeePayer([tx EXCEPT !.recentBlockhash = blockhash],
                             [tx EXCEPT !.recentBlockhash = blockhash,
                                        !.feePayer = args.feePayer])
    /\ UNCHANGED <<tool, args, netLog, relayed>>

\* ----------------------------------------------- signAndSendTransaction
\* lines 117-119: the signed transaction is serialized and submitted
RelaySerialize(serialized) ==
    IF serialized.error # NoError THEN
        /\ Return(serialized.error, TextResponse("", EmptyWire))
        /\ tx' = serialized.tx
        /\ steps' = <<"cluster", "decode", "key", "sign">>
        /\ netLog' = <<>>
    ELSE
        /\ pc' = "awaitSend"
        /\ tx' = serialized.tx
        /\ steps' = <<"cluster", "decode", "key", "sign", "serialize">>
        /\ netLog' = <<Request("sendRawTransaction", serialized.wire)>>
        /\ responses' = <<>>
        /\ failure' = NoError
        /\ terminated' = FALSE

\* line 116: the decoded transaction is signed
RelaySign(signed) ==
    IF signed.error # NoError THEN
        /\ Return(signed.error, TextResponse("", EmptyWire))
        /\ tx' = signed.tx
        /\ steps' = <<"cluster", "decode", "key">>
        /\ netLog' = <<>>
    ELSE \E serialized \in {TransactionSerialize(signed.tx)} :
            RelaySerialize(serialized)

\* lines 107-116: cluster, decoding, key parsing
RelayDecode(url, decoded, secretKey) ==
    IF url.error # NoError THEN
        /\ Return(url.error, TextResponse("", EmptyWire))
        /\ tx' = NewTransaction
        /\ steps' = <<>>
        /\ netLog' = <<>>
    ELSE IF decoded.error # NoError THEN
        /\ Return(decoded.error, TextResponse("", EmptyWire))
        /\ tx' = NewTransaction
        /\ steps' = <<"cluster">>
        /\ netLog' = <<>>
    ELSE IF ~KeypairOk(secretKey) THEN
        /\ Return(InvalidKeyMaterial, TextResponse("", EmptyWire))
        /\ tx' = decoded.tx
        /\ steps' = <<"cluster", "decode">>
        /\ netLog' = <<>>
    ELSE \E signed \in {TransactionSign(decoded.tx, secretKey)} :
            RelaySign(signed)

\* the handler up to its await of connection.sendRawTransaction()
SignAndSendHandler(transactionBase64, secretKey, cluster, isRelay) ==
    /\ tool' = "signAndSendTransaction"
    /\ args' = [NoArgs EXCEPT !.transactionBase64 = transactionBase64,
                              !.secretKey = secretKey, !.cluster = cluster]
    /\ relayed' = isRelay
    /\ \E decoded \in {TransactionFrom(transactionBase64)} :
          RelayDecode(GetClusterUrl(cluster), decoded, secretKey)

\* signAndSendTransaction on a transaction of the caller's
SignAndSendTransaction(transactionBase64, secretKey, cluster) ==
    /\ pc = "idle"
    /\ SignAndSendHandler(transactionBase64, secretKey, cluster, FALSE)

\* signAndSendTransaction on the transactionBase64 the preceding
\* buildTransaction returned
RelayBuiltTransaction(secretKey, cluster) ==
    /\ pc = "done"
    /\ tool = "buildTransaction"
    /\ failure = NoError
    /\ SignAndSendHandler(responses[1].transactionBase64, secretKey, cluster, TRUE)

SendReplyRetrying ==
    /\ pc = "awaitSend"
    /\ \/ /\ Len(netLog) < 2
          /\ netLog' = Append(netLog, netLog[1])
          /\ UNCHANGED <<pc, responses, failure, terminated, steps>>
       \/ /\ \E e \in NetworkFailures : Return(e, TextResponse("", EmptyWire))
          /\ UNCHANGED <<steps, netLog>>
       \/ /\ Return(NoError, TextResponse("{signature}", EmptyWire))
          /\ steps' = Append(steps, "send")
          /\ UNCHANGED netLog
    /\ UNCHANGED <<tool, args, tx, relayed>>

\* the handler from the reply to sendRawTransaction to its return
SendReply ==
    /\ pc = "awaitSend"
    /\ \/ /\ \E e \in NetworkFailures : Return(e, TextResponse("", EmptyWire))
          /\ UNCHANGED steps
       \/ /\ Return(NoError, TextResponse("{signature}", EmptyWire))
          /\ steps' = Append(steps, "send")
    /\ UNCHANGED <<tool, args, tx, netLog, relayed>>

\* ---------------------------------------------------------- query tools
DataSizes == {0, 165}
SignatureStrings == {"sig1", "nosuch"}
QueryResults == {"null", "value"}

\* a query handler up to its await of the connection's request
QueryTool(name, queryArgs, parseError, op) ==
    /\ pc = "idle"
    /\ tool' = name
    /\ args' = queryArgs
    /\ relayed' = FALSE
    /\ UNCHANGED tx
    /\ IF parseError # NoError THEN
           /\ Return(parseError, TextResponse("", EmptyWire))
           /\ UNCHANGED <<netLog, steps>>
       ELSE
           /\ pc' = "awaitQuery"
           /\ netLog' = Append(netLog, Request(op, EmptyWire))
           /\ steps' = <<"arguments">>
           /\ UNCHANGED <<responses, failure, terminated>>

GetAccountInfo(publicKey) ==
    QueryTool("getAccountInfo", [NoArgs EXCEPT !.publicKey = publicKey],
              IF PublicKeyOk(publicKey) THEN NoError ELSE InvalidAddress,
              "getAccountInfo")

GetBalance(publicKey) ==
    QueryTool("getBalance", [NoArgs EXCEPT !.publicKey = publicKey],
              IF PublicKeyOk(publicKey) THEN NoError ELSE InvalidAddress,
              "getBalance")

GetMinimumBalanceForRentExemption(dataSize) ==
    QueryTool("getMinimumBalanceForRentExemption", [NoArgs EXCEPT !.dataSize = dataSize],
              NoError, "getMinimumBalanceForRentExemption")

GetTransaction(signature) ==
    QueryTool("getTransaction", [NoArgs EXCEPT !.signature = signature],
              NoError, "getParsedTransaction")

\* a query handler from the reply to its request to its return
QueryReply ==
    /\ pc = "awaitQuery"
    /\ \/ /\ \E e \in NetworkFailures : Return(e, TextResponse("", EmptyWire))
          /\ UNCHANGED steps
       \/ /\ \E r \in QueryResults : Return(NoError, TextResponse(r, EmptyWire))
          /\ steps' = Append(steps, "query")
    /\ UNCHANGED <<tool, args, tx, netLog, relayed>>

\* the response is delivered; nothing of the invocation is kept
Deliver ==
    /\ pc = "done"
    /\ pc' = "idle"
    /\ tool' = ""
    /\ args' = NoArgs
    /\ tx' = NewTransaction
    /\ netLog' = <<>>
    /\ responses' = <<>>
    /\ failure' = NoError
    /\ steps' = <<>>
    /\ relayed' = FALSE
    /\ UNCHANGED terminated

\* a tool is invoked when no invocation is running
Idle == pc = "idle"

Next ==
    \/ /\ Idle
       /\ \E instructions \in InstructionLists, cluster \in ClusterStrings,
             feePayer \in AddressStrings, signerSecretKey \in SecretKeyStrings :
               BuildTransaction(instructions, cluster, feePayer, signerSecretKey)
    \/ BlockhashReply
    \/ /\ Idle
       /\ \E transactionBase64 \in ExternalWires, secretKey \in SecretKeyStrings,
             cluster \in ClusterStrings :
               SignAndSendTransaction(transactionBase64, secretKey, cluster)
    \/ /\ pc = "done"
       /\ \E secretKey \in SecretKeyStrings, cluster \in ClusterStrings :
               RelayBuiltTransaction(secretKey, cluster)
    \/ /\ Idle
       /\ \E publicKey \in AddressStrings : GetAccountInfo(publicKey)
    \/ /\ Idle
       /\ \E publicKey \in AddressStrings : GetBalance(publicKey)
    \/ /\ Idle
       /\ \E dataSize \in DataSizes : GetMinimumBalanceForRentExemption(dataSize)
    \/ /\ Idle
       /\ \E signature \in SignatureStrings : GetTransaction(signature)
    \/ SendReply
    \/ QueryReply
    \/ Deliver

Spec == Init /\ [][Next]_vars


\* --------------------------------------------------- verified properties
KnownClusters == {"mainnet-beta", "testnet", "devnet"}

Building == pc # "idle" /\ tool = "buildTransaction"

Relaying == pc # "idle" /\ tool = "signAndSendTransaction"

Completed(step) == \E i \in 1..Len(steps) : steps[i] = step

ErrorResponse(message) == TextResponse("Error: " \o message, EmptyWire)

\* the descriptors of type "transfer", in the caller's order
TransferDescriptors(instructions) == SelectSeq(instructions, LAMBDA d : d.type = "transfer")

MalformedTransfer(instructions) ==
    \E i \in 1..Len(instructions) :
        /\ instructions[i].type = "transfer"
        /\ \/ instructions[i].params.from \notin ValidAddresses
           \/ instructions[i].params.to \notin ValidAddresses

MalformedParticipant(instructions) ==
    \E i \in 1..Len(instructions) :
        \/ instructions[i].params.from \notin ValidAddresses
        \/ instructions[i].params.to \notin ValidAddresses

\* the operations of a transaction as (from, to, lamports)
Operations(transaction) ==
    [i \in 1..Len(transaction.instructions) |->
        [from |-> transaction.instructions[i].keys[1].pubkey,
         to |-> transaction.instructions[i].keys[2].pubkey,
         lamports |-> transaction.instructions[i].data]]

ExpectedOperations(instructions) ==
    LET ts == TransferDescriptors(instructions)
    IN  [i \in 1..Len(ts) |->
            [from |-> ts[i].params.from, to |-> ts[i].params.to,
             lamports |-> LAMPORTS_PER_SOL * ts[i].params.amount]]

\* the wire transaction the current invocation has encoded
EncodedWire ==
    IF tool = "buildTransaction"
    THEN (IF Len(responses) = 1 THEN responses[1].transactionBase64 ELSE EmptyWire)
    ELSE (IF Len(netLog) = 1 THEN netLog[1].payload ELSE EmptyWire)

\* the address of the key the current invocation signs with
SignerAddress ==
    IF tool = "buildTransaction" THEN PublicKeyOf(args.signerSecretKey)
    ELSE PublicKeyOf(args.secretKey)

\* the required signers of the transaction the key is applied to
RequiredSigners ==
    IF tool = "buildTransaction"
    THEN {args.feePayer} \cup
         {args.instructions[i].params.from :
            i \in {j \in 1..Len(args.instructions) : args.instructions[j].type = "transfer"}}
    ELSE {args.transactionBase64.message.accountKeys[i] :
            i \in 1..args.transactionBase64.message.header.numRequiredSignatures}

\* the accounts of the transaction the key is applied to
TransactionAccounts ==
    IF tool = "buildTransaction"
    THEN RequiredSigners \cup
         {args.instructions[i].params.to :
            i \in {j \in 1..Len(args.instructions) : args.instructions[j].type = "transfer"}}
    ELSE {args.transactionBase64.message.accountKeys[i] :
            i \in 1..Len(args.transactionBase64.message.accountKeys)}

FullySigned(transaction) ==
    \A i \in 1..Len(transaction.signatures) :
        transaction.signatures[i].signature # NullSignature

\* C1: every invocation that has returned produced exactly one text response;
\* when an error was thrown at any step, that response is the text "Error: "
\* followed by the error's message; no error ever leaves a handler.
C1_EveryFailureAnswered ==
    /\ ~terminated
    /\ pc = "done" => Len(responses) = 1 /\ responses[1].type = "text"
    /\ pc = "done" /\ failure # NoError => responses = <<ErrorResponse(failure)>>
    /\ pc # "done" => responses = <<>> /\ failure = NoError

C1_Witness ==
    /\ pc = "done"
    /\ tool = "signAndSendTransaction"
    /\ failure = NetworkUnavailable
    /\ responses = <<ErrorResponse(NetworkUnavailable)>>

\* C2: buildTransaction whose only malformed argument is feePayer fails with
\* the invalid-address error without having requested a blockhash.
C2_FeePayerRejectedBeforeNetwork ==
    (/\ pc = "done"
     /\ tool = "buildTransaction"
     /\ args.cluster \in KnownClusters
     /\ ~MalformedTransfer(args.instructions)
     /\ args.feePayer \notin ValidAddresses)
    => failure = InvalidAddress /\ netLog = <<>>

\* C3: getClusterUrl accepts exactly mainnet-beta, testnet and devnet and
\* throws "Invalid cluster" for every other name; buildTransaction and
\* signAndSendTransaction with another name answer that error and make no
\* network request.
C3_ClusterClosure ==
    /\ \A c \in ClusterStrings :
          GetClusterUrl(c).error = (IF c \in KnownClusters THEN NoError ELSE InvalidCluster)
    /\ (Building \/ Relaying) /\ args.cluster \notin KnownClusters
          => /\ pc = "done"
             /\ failure = InvalidCluster
             /\ responses = <<ErrorResponse(InvalidCluster)>>
             /\ netLog = <<>>
    /\ (Building \/ Relaying) /\ args.cluster \in KnownClusters => failure # InvalidCluster

C3_Witness ==
    /\ pc = "done"
    /\ tool = "signAndSendTransaction"
    /\ args.cluster = "localnet"
    /\ args.transactionBase64.wellFormed
    /\ responses = <<ErrorResponse(InvalidCluster)>>

\* C4 as claimed: a malformed from or to in any descriptor, whatever its
\* type, or a malformed feePayer, makes buildTransaction answer an error and
\* no transactionBase64.
C4_AnyMalformedAddressFails ==
    (/\ pc = "done"
     /\ tool = "buildTransaction"
     /\ \/ MalformedParticipant(args.instructions)
        \/ args.feePayer \notin ValidAddresses)
    => failure # NoError /\ ~responses[1].transactionBase64.wellFormed

\* C4 as amended: a malformed from or to in a descriptor of type "transfer",
\* or a malformed feePayer, makes buildTransaction answer an error and no
\* transactionBase64; with a known cluster a malformed transfer address is
\* answered by the invalid-address error before any network request, and a
\* malformed feePayer by the invalid-address error unless the blockhash
\* request failed first.
C4_MalformedTransferAddressFails ==
    /\ (/\ pc = "done"
        /\ tool = "buildTransaction"
        /\ MalformedTransfer(args.instructions) \/ args.feePayer \notin ValidAddresses)
       => /\ failure # NoError
          /\ responses = <<ErrorResponse(failure)>>
    /\ (Building /\ args.cluster \in KnownClusters /\ MalformedTransfer(args.instructions))
       => pc = "done" /\ failure = InvalidAddress /\ netLog = <<>>
    /\ (/\ pc = "done"
        /\ tool = "buildTransaction"
        /\ args.cluster \in KnownClusters
        /\ ~MalformedTransfer(args.instructions)
        /\ args.feePayer \notin ValidAddresses)
       => failure \in {InvalidAddress} \cup NetworkFailures

C4_Witness ==
    /\ pc = "done"
    /\ tool = "buildTransaction"
    /\ args.cluster \in KnownClusters
    /\ args.feePayer = "A"
    /\ args.signerSecretKey = "KA"
    /\ Len(args.instructions) = 2
    /\ args.instructions[1].type = "transfer"
    /\ args.instructions[1].params.to = "B"
    /\ args.instructions[2].type = "transfer"
    /\ args.instructions[2].params.to = "bad"
    /\ failure = InvalidAddress

\* C5: the operations of the transaction buildTransaction assembles, and of
\* the transaction it returns, are the descriptors of type "transfer", one
\* each, in the caller's order; a descriptor of another type is passed over
\* and stops nothing.
C5_TransfersInCallerOrder ==
    /\ Building /\ Completed("instructions")
          => Operations(tx) = ExpectedOperations(args.instructions)
    /\ Building /\ pc = "done" /\ failure = NoError
          => Operations(TransactionFrom(responses[1].transactionBase64).tx)
               = ExpectedOperations(args.instructions)
    /\ Building /\ args.cluster \in KnownClusters /\ ~MalformedTransfer(args.instructions)
          => Completed("instructions") /\ Len(netLog) = 1

C5_Witness ==
    /\ pc = "done"
    /\ tool = "buildTransaction"
    /\ failure = NoError
    /\ Len(args.instructions) = 2
    /\ Len(tx.instructions) = 2
    /\ tx.instructions[1] # tx.instructions[2]

\* the entries of a signature list for one address
EntriesFor(signatures, address) ==
    {i \in 1..Len(signatures) : signatures[i].publicKey = address}

\* the input transaction carries a valid signature of address a
InputSignedBy(a) ==
    LET w == args.transactionBase64
    IN  /\ w.wellFormed
        /\ \E i \in 1..Len(w.signatures) :
              /\ w.message.accountKeys[i] = a
              /\ Ed25519Verify(w.message, w.signatures[i], a)

InputSignature(a) ==
    LET w == args.transactionBase64
    IN  w.signatures[CHOOSE i \in 1..Len(w.signatures) : w.message.accountKeys[i] = a]

\* C6: when signAndSendTransaction signs, with key K, a transaction that
\* already carries K's signature, the signed transaction and the submitted
\* one hold exactly one entry for K's address, equal to the one it carried.
C6_ResigningIsIdempotent ==
    (Relaying /\ Completed("sign") /\ InputSignedBy(SignerAddress))
    => /\ Cardinality(EntriesFor(tx.signatures, SignerAddress)) = 1
       /\ \A i \in EntriesFor(tx.signatures, SignerAddress) :
             tx.signatures[i].signature = InputSignature(SignerAddress)
       /\ Len(netLog) = 1
             => /\ Len(netLog[1].payload.signatures) = Len(tx.signatures)
                /\ \A i \in EntriesFor(tx.signatures, SignerAddress) :
                      netLog[1].payload.signatures[i] = InputSignature(SignerAddress)

C6_Witness ==
    /\ pc = "done"
    /\ tool = "signAndSendTransaction"
    /\ relayed
    /\ failure = NoError
    /\ InputSignedBy(SignerAddress)
    /\ Cardinality(EntriesFor(tx.signatures, SignerAddress)) = 1

\* C7: when signAndSendTransaction signs, with the key of required signer B, a
\* transaction that carries a valid signature of another signer A, the
\* signed transaction still holds A's signature entry unchanged.
C7_EarlierSignatureKept ==
    (Relaying /\ Completed("sign") /\ SignerAddress \in RequiredSigners)
    => \A a \in RequiredSigners \ {SignerAddress} :
          InputSignedBy(a)
          => \E i \in 1..Len(tx.signatures) :
                tx.signatures[i] = [publicKey |-> a, signature |-> InputSignature(a)]

\* C8 as claimed: when the key's address is not among the required signers,
\* signing fails with the signer-mismatch error, no transactionBase64 is
\* returned and nothing is submitted.
C8_SignerMismatchRaised ==
    ((Building \/ Relaying) /\ Completed("key") /\ SignerAddress \notin RequiredSigners)
    => /\ pc = "done"
       /\ failure = SignerMismatch
       /\ responses = <<ErrorResponse(SignerMismatch)>>
       /\ netLog = IF tool = "buildTransaction"
                   THEN <<Request("getLatestBlockhash", EmptyWire)>> ELSE <<>>

\* C8 as amended: when the key's address is not among the required signers
\* the invocation fails, no transactionBase64 is returned and nothing is
\* submitted: signing throws the signer-mismatch error when the address is no
\* account of the transaction; when it is a non-signer account, signing
\* succeeds and serialization throws the signature-verification error.
C8_NonSignerKeyRejected ==
    ((Building \/ Relaying) /\ Completed("key") /\ SignerAddress \notin RequiredSigners)
    => /\ pc = "done"
       /\ failure = (IF SignerAddress \in TransactionAccounts
                     THEN SignatureVerificationFailed ELSE SignerMismatch)
       /\ Completed("sign") <=> SignerAddress \in TransactionAccounts
       /\ ~Completed("serialize")
       /\ responses = <<ErrorResponse(failure)>>
       /\ netLog = IF tool = "buildTransaction"
                   THEN <<Request("getLatestBlockhash", EmptyWire)>> ELSE <<>>

C8_Witness ==
    /\ pc = "done"
    /\ tool = "buildTransaction"
    /\ Completed("sign")
    /\ SignerAddress \notin RequiredSigners
    /\ SignerAddress \in TransactionAccounts
    /\ failure = SignatureVerificationFailed

C10_NoRetry ==
    /\ Len(netLog) <= 1
    /\ Building => \A i \in 1..Len(netLog) : netLog[i].op = "getLatestBlockhash"
    /\ Relaying => \A i \in 1..Len(netLog) : netLog[i].op = "sendRawTransaction"
    /\ Relaying /\ netLog # <<>>
          => SubSeq(steps, 1, 5) = <<"cluster", "decode", "key", "sign", "serialize">>
    /\ pc \in {"awaitBlockhash", "awaitSend", "awaitQuery"} => Len(netLog) = 1
    /\ failure \in NetworkFailures
          => /\ pc = "done"
             /\ Len(netLog) = 1
             /\ responses = <<ErrorResponse(failure)>>

C10_Witness ==
    /\ pc = "done"
    /\ tool = "buildTransaction"
    /\ failure = NetworkUnavailable
    /\ netLog = <<Request("getLatestBlockhash", EmptyWire)>>
====
